---- MODULE Spec2Model ----
(***************************************************************************)
(* Linguist-App (src/app.py): the users/decks/cards tables, the accessor  *)
(* functions and the Flask routes, as a state machine whose steps are the  *)
(* database statements of each handler.                                    *)
(*                                                                         *)
(* Storage is SQLite through SQLAlchemy with the default pysqlite          *)
(* settings: a SELECT runs outside any transaction and sees the last       *)
(* committed state; a flush (BEGIN .. DML .. COMMIT) is atomic; foreign     *)
(* keys are not enforced (no PRAGMA foreign_keys); the cascades of         *)
(* src/app.py:38-39,51 are ORM cascades, which load the children when      *)
(* session.delete() is called and delete them by primary key at commit.    *)
(* An INTEGER PRIMARY KEY without AUTOINCREMENT gets max(id)+1.            *)
(*                                                                         *)
(* Left out: User.name and user_update_name, deck_update, card_filter and  *)
(* the GET forms of /register and /login (no claim reads them).            *)
(*                                                                         *)
(* A request's ids are fixed when it arrives; its text and password        *)
(* fields are drawn at the step that first uses them (the request fixes    *)
(* them and no earlier step reads them, so the behaviours are the same).   *)
(***************************************************************************)
EXTENDS Integers, Sequences, FiniteSets, TLC

\* ------------------------------------------------------------------ bounds
MaxUsers == 2
MaxDecks == 2
MaxCards == 3
MaxReqs == 3

\* ------------------------------------------------------------ value domains
Clients == {"c1", "c2"}
NONE == "<none>"
NoId == 0
Nil == [nil |-> TRUE]
Emails == {"alice", "bob"}
Passwords == {"p1", "p2"}
Salts == {"s1", "s2"}
Texts == {"new"}
FormVals == Texts \cup {"", NONE}
TipVals == Texts \cup {NONE}

UserIds == 1..MaxUsers
DeckIds == 1..MaxDecks
CardIds == 1..MaxCards

VARIABLES users, decks, cards, cookie, pc, req, cur, loaded, ret, nreq, threaded

vars == <<users, decks, cards, cookie, pc, req, cur, loaded, ret, nreq, threaded>>
db == <<users, decks, cards>>

\* ----------------------------------------------------------------- requests
\* A request names its operation and whether it came through a route or as
\* a direct call of an accessor; its arguments are further fields.
NoReq == [op |-> "none", via |-> "none"]
Route(op) == [op |-> op, via |-> "route"]
Call(op) == [op |-> op, via |-> "call"]

\* ------------------------------------------------------------------- tables
Exists(tbl, id) == id \in DOMAIN tbl /\ tbl[id] # Nil
Live(tbl) == {i \in DOMAIN tbl : tbl[i] # Nil}

SetMax(S) == IF S = {} THEN 0 ELSE CHOOSE m \in S : \A x \in S : x <= m

\* SQLite rowid of an inserted row: one more than the largest rowid in use.
NewId(tbl) == SetMax(Live(tbl)) + 1

User(email, password) == [email |-> email, password |-> password]
Deck(name, user_id) == [name |-> name, user_id |-> user_id]
Card(user_id, word, translation, tip, deck_id) ==
  [user_id |-> user_id, word |-> word, translation |-> translation,
   tip |-> tip, deck_id |-> deck_id]

to_dict(id, card) ==
  [id |-> id, word |-> card.word, translation |-> card.translation, tip |-> card.tip]

user_get_by_email(email) == {u \in Live(users) : users[u].email = email}

\* The cards of a deck / the decks and cards of a user, as the relationship
\* collections load them (SELECT .. WHERE deck_id = ? / user_id = ?).
DeckCards(d) == {k \in Live(cards) : cards[k].deck_id = d}
UserDecks(u) == {d \in Live(decks) : decks[d].user_id = u}
UserCards(u) == {k \in Live(cards) : cards[k].user_id = u}

\* Rows removed by DELETE .. WHERE id = ? for each id of ids.
DeleteRows(tbl, ids) == [i \in DOMAIN tbl |-> IF i \in ids THEN Nil ELSE tbl[i]]

\* --------------------------------------------------------- credential service
\* pwd_context.hash: a salted one-way hash; the salt is drawn at random.
Hash(password, salt) == [salt |-> salt, digest |-> <<salt, password>>]

\* A verify that accepts any password.
verify_password_any(row, password) == TRUE

verify_password(row, password) == row.password.digest = <<row.password.salt, password>>

\* ---------------------------------------------------------------- responses
Resp(kind) == [kind |-> kind, data |-> <<>>]
NoLoad == [decks |-> {}, cards |-> {}, row |-> Nil]

\* ------------------------------------------------------------- initial state
\* setup_database on a fresh linguist.db: Alice, her deck and its two cards.
setup_database ==
  /\ decks = [i \in DeckIds |-> IF i = 1 THEN Deck("General Vocabulary", 1) ELSE Nil]
  /\ cards = [i \in CardIds |->
               IF i = 1 THEN Card(1, "hello", "pryvit", "greeting", 1)
               ELSE IF i = 2 THEN Card(1, "world", "svit", "planet", 1)
               ELSE Nil]

\* The application once set up, with or without a second registered user.
Installed ==
  /\ setup_database
  /\ \E registered \in BOOLEAN :
       users = [i \in UserIds |->
                  IF i = 1 THEN User("alice", Hash("p1", "s1"))
                  ELSE IF i = 2 /\ registered THEN User("bob", Hash("p2", "s1"))
                  ELSE Nil]
  /\ pc = [c \in Clients |-> "idle"]
  /\ req = [c \in Clients |-> NoReq]
  /\ cur = [c \in Clients |-> NoId]
  /\ loaded = [c \in Clients |-> NoLoad]
  /\ ret = [c \in Clients |-> Resp("none")]
  /\ nreq = 0

\* Each client's session is logged out or logged in as one of the users.
\* The clients are interchangeable: of two mirrored assignments one is kept.
\* A second user registered at the start holds a session (a second user
\* without one is reached by /logout, and by /register from the start
\* without a second user).
Sessions ==
  /\ cookie \in [Clients -> Live(users) \cup {NoId}]
  /\ cookie["c1"] <= cookie["c2"]
  /\ Exists(users, 2) => cookie["c2"] = 2

\* The threaded server (app.run): requests are served concurrently.
Init == Installed /\ Sessions /\ threaded = TRUE

\* A server that serves one request at a time.
InitSerial == Installed /\ Sessions /\ threaded = FALSE

\* A script calling the accessors one after the other (src/test_crud.py):
\* no client has a session.
InitCalls == Installed /\ cookie = [c \in Clients |-> NoId] /\ threaded = FALSE

\* The threaded server with three sessions: two browsers of Alice and one
\* of Bob, who has registered and owns nothing yet.
ThreeClients == Clients \cup {"c3"}

InitThree ==
  /\ setup_database
  /\ users = [i \in UserIds |->
               IF i = 1 THEN User("alice", Hash("p1", "s1"))
               ELSE IF i = 2 THEN User("bob", Hash("p2", "s1"))
               ELSE Nil]
  /\ pc = [c \in ThreeClients |-> "idle"]
  /\ req = [c \in ThreeClients |-> NoReq]
  /\ cur = [c \in ThreeClients |-> NoId]
  /\ loaded = [c \in ThreeClients |-> NoLoad]
  /\ ret = [c \in ThreeClients |-> Resp("none")]
  /\ nreq = 0
  /\ cookie = [c \in ThreeClients |-> IF c = "c3" THEN 2 ELSE 1]
  /\ threaded = TRUE

\* ------------------------------------------------------------ control helpers
Goto(c, label) == pc' = [pc EXCEPT ![c] = label]

\* The handler returns: the response is recorded.
Respond(c, r) ==
  /\ pc' = [pc EXCEPT ![c] = "done"]
  /\ ret' = [ret EXCEPT ![c] = r]
  /\ UNCHANGED <<cur, loaded>>

\* The handler goes on to its next database step.
Continue(c, label) == Goto(c, label) /\ UNCHANGED <<ret, cur, loaded>>

\* load_user: the user the session cookie names, if that row exists.
load_user(c) == IF Exists(users, cookie[c]) THEN cookie[c] ELSE NoId

\* A returned response is delivered before any other client's next step:
\* delivery touches only that client's request record, so it commutes with
\* every step of the others and the order loses no behaviour of the tables.
Delivered(c) == \A o \in DOMAIN pc \ {c} : pc[o] # "done"

\* No other request is in flight.
Alone(c) == \A o \in DOMAIN pc \ {c} : pc[o] = "idle"

\* A request arrives at an idle client (one request per client at a time;
\* unless the server is threaded, only when no other is in flight).
Begin(c, r) ==
  /\ pc[c] = "idle"
  /\ Delivered(c)
  /\ threaded \/ Alone(c)
  /\ nreq < MaxReqs
  /\ nreq' = nreq + 1
  /\ req' = [req EXCEPT ![c] = r]
  /\ UNCHANGED threaded

\* A direct call of an accessor starts.
Enter(c, r, label) ==
  /\ Begin(c, r)
  /\ Goto(c, label)
  /\ ret' = [ret EXCEPT ![c] = Resp("pending")]
  /\ UNCHANGED <<db, cookie, cur, loaded>>

\* A route without @login_required.
login_required_missing(c, r, body) ==
  /\ Begin(c, r)
  /\ cur' = [cur EXCEPT ![c] = cookie[c]]
  /\ Goto(c, body)
  /\ ret' = [ret EXCEPT ![c] = Resp("pending")]
  /\ UNCHANGED <<db, cookie, loaded>>

\* @login_required: an unauthenticated request is redirected to the login
\* view; otherwise current_user is fixed for the request and the body runs.
login_required(c, r, body) ==
  /\ Begin(c, r)
  /\ IF load_user(c) = NoId
       THEN /\ Respond(c, Resp("unauthorized"))
       ELSE /\ cur' = [cur EXCEPT ![c] = load_user(c)]
            /\ Goto(c, body)
            /\ ret' = [ret EXCEPT ![c] = Resp("pending")]
            /\ UNCHANGED loaded
  /\ UNCHANGED <<db, cookie>>

\* What a route answers once the accessor it called has returned v: the
\* routes ignore the accessor's return value; an exception is a 500.
IsRaise(v) == v \in {"IntegrityError", "StaleDataError", "InvalidRequestError"}

RouteResult(op, v) ==
  IF IsRaise(v) THEN Resp("error500")
  ELSE IF op = "update_card" THEN Resp("card_updated")
  ELSE IF op = "delete_card" THEN Resp("card_deleted")
  ELSE IF op = "delete_deck" THEN Resp("deck_deleted")
  ELSE IF op = "add_card" THEN Resp("card_added")
  ELSE IF op = "add_deck" THEN Resp("deck_added")
  ELSE Resp(v)

\* An accessor returns v to its caller: a route, or a direct call.
Return(c, v) ==
  Respond(c, IF req[c].via = "route" THEN RouteResult(req[c].op, v) ELSE Resp(v))

\* A step of the request in flight at label.
Mid(c, label) == pc[c] = label /\ Delivered(c) /\ UNCHANGED <<nreq, threaded>>

\* The step reads fields of the request (a record) for the first time.
Read(c, fields) == req' = [req EXCEPT ![c] = fields @@ @]

\* ----------------------------------------------------------- user accessors
\* user_create, from the SELECT by email to the return of None.
user_create_select(c) ==
  /\ Mid(c, "user_create")
  /\ IF user_get_by_email(req[c].email) # {}
       THEN IF req[c].via = "route"
              THEN Respond(c, Resp("register_failed"))
              ELSE Respond(c, Resp("None"))
       ELSE Continue(c, "user_create_insert")
  /\ UNCHANGED <<db, cookie, req>>

\* user_create, hash + INSERT + commit (+ refresh); register then logs the
\* new user in.  The UNIQUE constraint on users.email fails the INSERT.
user_create_insert(c) ==
  /\ Mid(c, "user_create_insert")
  /\ IF user_get_by_email(req[c].email) # {}
       THEN /\ Return(c, "IntegrityError")
            /\ UNCHANGED <<db, cookie, req>>
       ELSE /\ NewId(users) \in UserIds
            /\ \E p \in Passwords, s \in Salts :
                 /\ Read(c, [password |-> p])
                 /\ users' = [users EXCEPT ![NewId(users)] = User(req[c].email, Hash(p, s))]
            /\ IF req[c].via = "route"
                 THEN /\ cookie' = [cookie EXCEPT ![c] = NewId(users)]
                      /\ Respond(c, Resp("registered"))
                 ELSE /\ Respond(c, [kind |-> "user", data |-> <<NewId(users)>>])
                      /\ UNCHANGED cookie
            /\ UNCHANGED <<decks, cards>>

user_create_call(c) ==
  \E e \in Emails :
    Enter(c, [op |-> "user_create", via |-> "call", email |-> e], "user_create")

\* user_change_password: session.get, verify_password, then the UPDATE.
user_change_password_call(c) ==
  \E u \in UserIds, old \in Passwords :
    Enter(c, [op |-> "user_change_password", via |-> "call", id |-> u, old |-> old],
          "user_change_password")

\* user_change_password without the verify_password(old_password) test.
user_change_password_get_unverified(c) ==
  /\ Mid(c, "user_change_password")
  /\ IF Exists(users, req[c].id)
       THEN Continue(c, "user_change_password_flush")
       ELSE Respond(c, Resp("False"))
  /\ UNCHANGED <<db, cookie, req>>

user_change_password_get(c) ==
  /\ Mid(c, "user_change_password")
  /\ IF Exists(users, req[c].id) /\ verify_password(users[req[c].id], req[c].old)
       THEN Continue(c, "user_change_password_flush")
       ELSE Respond(c, Resp("False"))
  /\ UNCHANGED <<db, cookie, req>>

\* UPDATE users SET password = ? WHERE id = ?; no row matched is a
\* StaleDataError.
user_change_password_flush(c) ==
  /\ Mid(c, "user_change_password_flush")
  /\ \E new \in Passwords, s \in Salts :
       /\ Read(c, [new |-> new])
       /\ IF Exists(users, req[c].id)
            THEN /\ users' = [users EXCEPT ![req[c].id].password = Hash(new, s)]
                 /\ Respond(c, Resp("True"))
            ELSE /\ Respond(c, Resp("StaleDataError"))
                 /\ UNCHANGED users
  /\ UNCHANGED <<decks, cards, cookie>>

\* user_delete_by_id: session.get; session.delete loads the cascade
\* (user.decks, user.cards, each deck's cards); commit deletes by id.
user_delete_by_id_call(c) ==
  \E u \in UserIds :
    Enter(c, [op |-> "user_delete_by_id", via |-> "call", id |-> u], "user_delete")

user_delete_get(c) ==
  /\ Mid(c, "user_delete")
  /\ IF Exists(users, req[c].id)
       THEN Continue(c, "user_delete_cascade")
       ELSE Respond(c, Resp("False"))
  /\ UNCHANGED <<db, cookie, req>>

user_delete_cascade(c) ==
  /\ Mid(c, "user_delete_cascade")
  /\ loaded' = [loaded EXCEPT ![c] =
       [decks |-> UserDecks(req[c].id),
        cards |-> UserCards(req[c].id)
                    \cup UNION {DeckCards(d) : d \in UserDecks(req[c].id)},
        row |-> Nil]]
  /\ Goto(c, "user_delete_flush")
  /\ UNCHANGED <<db, cookie, ret, cur, req>>

user_delete_flush(c) ==
  /\ Mid(c, "user_delete_flush")
  /\ cards' = DeleteRows(cards, loaded[c].cards)
  /\ decks' = DeleteRows(decks, loaded[c].decks)
  /\ users' = DeleteRows(users, {req[c].id})
  /\ Respond(c, Resp("True"))
  /\ UNCHANGED <<cookie, req>>

\* ------------------------------------------------------- session/auth routes
register(c) ==
  /\ \E e \in Emails : Begin(c, [op |-> "register", via |-> "route", email |-> e])
  /\ IF user_get_by_email(req'[c].email) # {}
       THEN Respond(c, Resp("email_taken"))
       ELSE /\ Goto(c, "user_create")
            /\ ret' = [ret EXCEPT ![c] = Resp("pending")]
            /\ UNCHANGED <<cur, loaded>>
  /\ UNCHANGED <<db, cookie>>

\* POST /login: an authenticated session is sent to the index; otherwise
\* the lookup by email and verify_password decide.
login(c) ==
  /\ Begin(c, Route("login"))
  /\ IF load_user(c) # NoId
       THEN Respond(c, Resp("already_logged_in"))
       ELSE /\ Goto(c, "login_post")
            /\ ret' = [ret EXCEPT ![c] = Resp("pending")]
            /\ UNCHANGED <<cur, loaded>>
  /\ UNCHANGED <<db, cookie>>

login_post(c) ==
  /\ Mid(c, "login_post")
  /\ \E e \in Emails, p \in Passwords :
       /\ Read(c, [email |-> e, password |-> p])
       /\ LET found == {u \in user_get_by_email(e) : verify_password(users[u], p)}
          IN IF found # {}
               THEN /\ cookie' = [cookie EXCEPT ![c] = CHOOSE u \in found : TRUE]
                    /\ Respond(c, Resp("logged_in"))
               ELSE /\ Respond(c, Resp("bad_credentials"))
                    /\ UNCHANGED cookie
  /\ UNCHANGED db

\* GET /logout: logout_user clears the session's user id.
logout(c) ==
  /\ Begin(c, Route("logout"))
  /\ IF load_user(c) = NoId
       THEN Respond(c, Resp("unauthorized")) /\ UNCHANGED cookie
       ELSE /\ cookie' = [cookie EXCEPT ![c] = NoId]
            /\ Respond(c, Resp("logged_out"))
  /\ UNCHANGED db

\* ------------------------------------------------------ deck/card accessors
\* The user_id argument of deck_create / card_create: current_user.id in a
\* route, the caller's value in a direct call.
OwnerArg(c) == IF req[c].via = "route" THEN cur[c] ELSE req[c].user_id

\* deck_create / card_create: INSERT + commit (+ refresh).
deck_create(c) ==
  /\ Mid(c, "deck_create")
  /\ NewId(decks) \in DeckIds
  /\ decks' = [decks EXCEPT ![NewId(decks)] = Deck(req[c].name, OwnerArg(c))]
  /\ Return(c, "deck")
  /\ UNCHANGED <<users, cards, cookie, req>>

card_create(c) ==
  /\ Mid(c, "card_create")
  /\ NewId(cards) \in CardIds
  /\ \E h \in TipVals :
       /\ Read(c, [tip |-> h])
       /\ cards' = [cards EXCEPT ![NewId(cards)] =
                      Card(OwnerArg(c), req[c].word, req[c].translation, h,
                           req[c].id)]
  /\ Return(c, "card")
  /\ UNCHANGED <<users, decks, cookie>>

\* deck_delete_by_id: session.get; session.delete loads deck.cards; commit
\* deletes the loaded cards and the deck by id.
deck_delete_get(c) ==
  /\ Mid(c, "deck_delete")
  /\ IF Exists(decks, req[c].id)
       THEN Continue(c, "deck_delete_cascade")
       ELSE Return(c, "False")
  /\ UNCHANGED <<db, cookie, req>>

\* deck_delete_by_id without the cascade of Deck.cards.
deck_delete_cascade_none(c) ==
  /\ Mid(c, "deck_delete_cascade")
  /\ loaded' = [loaded EXCEPT ![c] = [decks |-> {req[c].id}, cards |-> {}, row |-> Nil]]
  /\ Goto(c, "deck_delete_flush")
  /\ UNCHANGED <<db, cookie, ret, cur, req>>

deck_delete_cascade(c) ==
  /\ Mid(c, "deck_delete_cascade")
  /\ loaded' = [loaded EXCEPT ![c] =
                  [decks |-> {req[c].id}, cards |-> DeckCards(req[c].id), row |-> Nil]]
  /\ Goto(c, "deck_delete_flush")
  /\ UNCHANGED <<db, cookie, ret, cur, req>>

deck_delete_flush(c) ==
  /\ Mid(c, "deck_delete_flush")
  /\ cards' = DeleteRows(cards, loaded[c].cards)
  /\ decks' = DeleteRows(decks, loaded[c].decks)
  /\ Return(c, "True")
  /\ UNCHANGED <<users, cookie, req>>

\* card_delete_by_id: session.get, then DELETE by id at commit (a DELETE
\* that matches no row only warns).
\* card_delete_by_id without the "if card" test.
card_delete_get_unchecked(c) ==
  /\ Mid(c, "card_delete")
  /\ Continue(c, "card_delete_flush")
  /\ UNCHANGED <<db, cookie, req>>

card_delete_get(c) ==
  /\ Mid(c, "card_delete")
  /\ IF Exists(cards, req[c].id)
       THEN Continue(c, "card_delete_flush")
       ELSE Return(c, "False")
  /\ UNCHANGED <<db, cookie, req>>

card_delete_flush(c) ==
  /\ Mid(c, "card_delete_flush")
  /\ cards' = DeleteRows(cards, {req[c].id})
  /\ Return(c, "True")
  /\ UNCHANGED <<users, decks, cookie, req>>

\* card_update: session.get; the supplied fields are assigned; commit
\* UPDATEs the columns whose value differs from the loaded one; refresh.
card_update_get(c) ==
  /\ Mid(c, "card_update")
  /\ IF Exists(cards, req[c].id)
       THEN /\ loaded' = [loaded EXCEPT ![c].row = cards[req[c].id]]
            /\ Goto(c, "card_update_flush")
            /\ UNCHANGED <<ret, cur>>
       ELSE Return(c, "None")
  /\ UNCHANGED <<db, cookie, req>>

Dirty(given, old, f) == given[f] # NONE /\ given[f] # old[f]

\* card_update without the "is not None" tests.
Assign_unconditional(given, old, f, row) == given[f]

Assign(given, old, f, row) == IF Dirty(given, old, f) THEN given[f] ELSE row[f]

card_update_flush(c) ==
  /\ Mid(c, "card_update_flush")
  /\ \E w \in FormVals, t \in FormVals, h \in TipVals :
       LET given == [word |-> w, translation |-> t, tip |-> h]
           old == loaded[c].row
       IN /\ Read(c, given)
          /\ IF \E f \in {"word", "translation", "tip"} : Dirty(given, old, f)
               THEN IF Exists(cards, req[c].id)
                      THEN /\ cards' = [cards EXCEPT ![req[c].id] =
                                Card(@.user_id, Assign(given, old, "word", @),
                                     Assign(given, old, "translation", @),
                                     Assign(given, old, "tip", @), @.deck_id)]
                           /\ Continue(c, "card_update_refresh")
                      ELSE /\ Return(c, "StaleDataError")
                           /\ UNCHANGED cards
               ELSE /\ Continue(c, "card_update_refresh")
                    /\ UNCHANGED cards
  /\ UNCHANGED <<users, decks, cookie>>

card_update_refresh(c) ==
  /\ Mid(c, "card_update_refresh")
  /\ IF Exists(cards, req[c].id)
       THEN Return(c, "card")
       ELSE Return(c, "InvalidRequestError")
  /\ UNCHANGED <<db, cookie, req>>

\* Direct calls of the accessors (as src/test_crud.py makes them).
deck_delete_by_id_call(c) ==
  \E d \in DeckIds :
    Enter(c, [op |-> "deck_delete_by_id", via |-> "call", id |-> d], "deck_delete")

card_delete_by_id_call(c) ==
  \E k \in CardIds :
    Enter(c, [op |-> "card_delete_by_id", via |-> "call", id |-> k], "card_delete")

card_update_call(c) ==
  \E k \in CardIds :
    Enter(c, [op |-> "card_update", via |-> "call", id |-> k], "card_update")

deck_create_call(c) ==
  \E u \in UserIds, n \in Texts :
    Enter(c, [op |-> "deck_create", via |-> "call", name |-> n, user_id |-> u],
          "deck_create")

\* card_create(user_id, word, translation, tip, deck_id = None)
card_create_call(c) ==
  \E u \in UserIds, d \in DeckIds \cup {NoId}, w \in Texts, t \in Texts :
    Enter(c, [op |-> "card_create", via |-> "call", id |-> d, user_id |-> u,
              word |-> w, translation |-> t], "card_create")

\* ------------------------------------------------------------ deck/card routes
\* The deck test without the owner comparison.
OwnDeck_anyone(c, d) == Exists(decks, d)

OwnDeck(c, d) == Exists(decks, d) /\ decks[d].user_id = cur[c]
OwnCard(c, k) == Exists(cards, k) /\ cards[k].user_id = cur[c]

index(c) == login_required(c, Route("index"), "index")

index_query(c) ==
  /\ Mid(c, "index")
  /\ Respond(c, [kind |-> "decks_page", data |-> <<UserDecks(cur[c])>>])
  /\ UNCHANGED <<db, cookie, req>>

show_cards_in_deck(c) ==
  \E d \in DeckIds :
    login_required(c, [op |-> "show_cards_in_deck", via |-> "route", id |-> d], "show_cards")

show_cards_in_deck_get(c) ==
  /\ Mid(c, "show_cards")
  /\ IF OwnDeck(c, req[c].id)
       THEN Respond(c, [kind |-> "cards_page", data |-> <<DeckCards(req[c].id)>>])
       ELSE Respond(c, Resp("deck_not_found"))
  /\ UNCHANGED <<db, cookie, req>>

add_card_to_deck(c) ==
  \E d \in DeckIds :
    login_required(c, [op |-> "add_card", via |-> "route", id |-> d], "add_card")

\* request.form["word"] of a missing field is a 400 before the deck is read.
add_card_to_deck_check(c) ==
  /\ Mid(c, "add_card")
  /\ \E w \in FormVals, t \in FormVals :
       /\ Read(c, [word |-> w, translation |-> t])
       /\ IF w = NONE \/ t = NONE
            THEN Respond(c, Resp("bad_request"))
            ELSE IF ~OwnDeck(c, req[c].id)
              THEN Respond(c, Resp("deck_not_found"))
              ELSE IF w # "" /\ t # ""
                THEN Continue(c, "card_create")
                ELSE Respond(c, Resp("validation_error"))
  /\ UNCHANGED <<db, cookie>>

edit_card(c) ==
  \E k \in CardIds :
    login_required(c, [op |-> "edit_card", via |-> "route", id |-> k], "edit_card")

edit_card_get(c) ==
  /\ Mid(c, "edit_card")
  /\ IF OwnCard(c, req[c].id)
       THEN Respond(c, [kind |-> "edit_page", data |-> <<req[c].id>>])
       ELSE Respond(c, Resp("card_not_found"))
  /\ UNCHANGED <<db, cookie, req>>

update_card(c) ==
  \E k \in CardIds :
    login_required(c, [op |-> "update_card", via |-> "route", id |-> k], "update_card")

update_card_check(c) ==
  /\ Mid(c, "update_card")
  /\ IF OwnCard(c, req[c].id)
       THEN Continue(c, "card_update")
       ELSE Respond(c, Resp("card_not_found"))
  /\ UNCHANGED <<db, cookie, req>>

delete_card(c) ==
  \E k \in CardIds :
    login_required(c, [op |-> "delete_card", via |-> "route", id |-> k], "delete_card")

delete_card_check(c) ==
  /\ Mid(c, "delete_card")
  /\ IF OwnCard(c, req[c].id)
       THEN Continue(c, "card_delete")
       ELSE Respond(c, Resp("card_not_found"))
  /\ UNCHANGED <<db, cookie, req>>

add_deck(c) == login_required(c, Route("add_deck"), "add_deck")

add_deck_check(c) ==
  /\ Mid(c, "add_deck")
  /\ \E n \in FormVals :
       /\ Read(c, [name |-> n])
       /\ IF n # NONE /\ n # ""
            THEN Continue(c, "deck_create")
            ELSE Respond(c, Resp("validation_error"))
  /\ UNCHANGED <<db, cookie>>

delete_deck(c) ==
  \E d \in DeckIds :
    login_required(c, [op |-> "delete_deck", via |-> "route", id |-> d], "delete_deck")

delete_deck_check(c) ==
  /\ Mid(c, "delete_deck")
  /\ IF OwnDeck(c, req[c].id)
       THEN Continue(c, "deck_delete")
       ELSE Respond(c, Resp("deck_not_found"))
  /\ UNCHANGED <<db, cookie, req>>

review_deck(c) ==
  \E d \in DeckIds :
    login_required(c, [op |-> "review", via |-> "route", id |-> d], "review")

review_deck_check(c) ==
  /\ Mid(c, "review")
  /\ IF OwnDeck(c, req[c].id)
       THEN Continue(c, "review_load")
       ELSE Respond(c, Resp("deck_not_found"))
  /\ UNCHANGED <<db, cookie, req>>

\* Sampling with replacement instead of a shuffle.
Orders_with_repeats(S) == [1..Cardinality(S) -> S]

\* random.shuffle: any order of the list.
Orders(S) == {f \in [1..Cardinality(S) -> S] : \A i, j \in DOMAIN f : i # j => f[i] # f[j]}

\* deck.cards is loaded, each card becomes its to_dict record, the list is
\* shuffled and rendered.
review_deck_load(c) ==
  /\ Mid(c, "review_load")
  /\ \E order \in Orders(DeckCards(req[c].id)) :
       Respond(c, [kind |-> "review_page",
                   data |-> [i \in DOMAIN order |-> to_dict(order[i], cards[order[i]])]])
  /\ UNCHANGED <<db, cookie, req>>

\* The response reaches the client and the request's locals die; the client
\* is then free to send a request.
deliver(c) ==
  /\ pc[c] = "done"
  /\ pc' = [pc EXCEPT ![c] = "idle"]
  /\ req' = [req EXCEPT ![c] = NoReq]
  /\ ret' = [ret EXCEPT ![c] = Resp("none")]
  /\ cur' = [cur EXCEPT ![c] = NoId]
  /\ loaded' = [loaded EXCEPT ![c] = NoLoad]
  /\ UNCHANGED <<db, cookie, nreq, threaded>>

\* ------------------------------------------------------------ specifications
\* The steps of /register, /login, /logout.
AuthSteps(c) ==
  \/ register(c) \/ user_create_select(c) \/ user_create_insert(c)
  \/ login(c) \/ login_post(c) \/ logout(c)

\* The steps of the user accessors called directly.
UserDeleteSteps(c) ==
  \/ user_delete_by_id_call(c) \/ user_delete_get(c) \/ user_delete_cascade(c)
  \/ user_delete_flush(c)

UserCallSteps(c) ==
  \/ user_create_call(c) \/ user_create_select(c) \/ user_create_insert(c)
  \/ user_change_password_call(c) \/ user_change_password_get(c)
  \/ user_change_password_flush(c)
  \/ UserDeleteSteps(c)

\* The steps of the deck and card accessors, however called.
AccessorSteps(c) ==
  \/ deck_create(c) \/ card_create(c)
  \/ deck_delete_get(c) \/ deck_delete_cascade(c) \/ deck_delete_flush(c)
  \/ card_delete_get(c) \/ card_delete_flush(c)
  \/ card_update_get(c) \/ card_update_flush(c) \/ card_update_refresh(c)

\* The steps of the deck and card routes.
RouteSteps(c) ==
  \/ index(c) \/ index_query(c)
  \/ show_cards_in_deck(c) \/ show_cards_in_deck_get(c)
  \/ add_card_to_deck(c) \/ add_card_to_deck_check(c)
  \/ edit_card(c) \/ edit_card_get(c)
  \/ update_card(c) \/ update_card_check(c)
  \/ delete_card(c) \/ delete_card_check(c)
  \/ add_deck(c) \/ add_deck_check(c)
  \/ delete_deck(c) \/ delete_deck_check(c)
  \/ review_deck(c) \/ review_deck_check(c) \/ review_deck_load(c)

\* Direct calls of the deck and card accessors.
CallSteps(c) ==
  \/ deck_create_call(c) \/ card_create_call(c)
  \/ deck_delete_by_id_call(c) \/ card_delete_by_id_call(c) \/ card_update_call(c)

\* The web application: every route, under the threaded server.
Next ==
  \E c \in Clients : deliver(c) \/ AuthSteps(c) \/ RouteSteps(c) \/ AccessorSteps(c)

Spec == Init /\ [][Next]_vars

\* The web application serving one request at a time.
SpecSerial == InitSerial /\ [][Next]_vars

\* Users and sessions: /register, /login, /logout and the user accessors.
\* These are all the steps that write the users table.
NextUsers == \E c \in Clients : deliver(c) \/ AuthSteps(c) \/ UserCallSteps(c)

SpecUsers == Init /\ [][NextUsers]_vars

SpecUsersSerial == InitSerial /\ [][NextUsers]_vars

\* The deck, card and user-delete accessors called directly, one call at
\* a time.
NextCalls ==
  \E c \in Clients : deliver(c) \/ CallSteps(c) \/ AccessorSteps(c) \/ UserDeleteSteps(c)

SpecCalls == InitCalls /\ [][NextCalls]_vars

\* The routes that write the decks and cards tables, with three sessions.
MutatingSteps(c) ==
  \/ add_card_to_deck(c) \/ add_card_to_deck_check(c)
  \/ update_card(c) \/ update_card_check(c)
  \/ delete_card(c) \/ delete_card_check(c)
  \/ add_deck(c) \/ add_deck_check(c)
  \/ delete_deck(c) \/ delete_deck_check(c)

NextThree ==
  \E c \in ThreeClients : deliver(c) \/ MutatingSteps(c) \/ AccessorSteps(c)

SpecThree == InitThree /\ [][NextThree]_vars

\* ------------------------------------------------------------------ claims
Ran(c) == pc'[c] # pc[c]
Returned(c) == pc[c] = "done"

EmailsUnique ==
  \A u, v \in Live(users) : users[u].email = users[v].email => u = v

\* C1 (as stated): a user_create or /register for an email that a user
\* already holds ends without an error and without a new user, users
\* unchanged; and no two users ever share an email.
C1_DuplicateEmailRejectedQuietly ==
  /\ []EmailsUnique
  /\ [][\A c \in Clients :
          (Ran(c) /\ pc'[c] = "done" /\ req[c].op \in {"user_create", "register"}
             /\ user_get_by_email(req[c].email) # {})
          => /\ ret'[c].kind \in {"None", "register_failed", "email_taken"}
             /\ users' = users]_vars

\* C2 (as stated): no orphaned rows: every deck's and card's user_id names
\* a user, every card's deck_id that is set names a deck.
C2_NoOrphanedRows ==
  /\ \A d \in Live(decks) : Exists(users, decks[d].user_id)
  /\ \A k \in Live(cards) :
       /\ Exists(users, cards[k].user_id)
       /\ cards[k].deck_id # NoId => Exists(decks, cards[k].deck_id)

\* C3: when deck_delete_by_id(d) commits and returns True, deck d and each
\* card that had deck_id = d are gone, and every other card, every other
\* deck and every user is as before.
C3_DeckDeleteCascades ==
  [][\A c \in Clients :
       (pc[c] = "deck_delete_flush" /\ pc'[c] = "done")
       => /\ ret'[c].kind = "True"
          /\ ~Exists(decks', req[c].id)
          /\ \A k \in CardIds :
               IF Exists(cards, k) /\ cards[k].deck_id = req[c].id
                 THEN ~Exists(cards', k)
                 ELSE cards'[k] = cards[k]
          /\ \A e \in DeckIds \ {req[c].id} : decks'[e] = decks[e]
          /\ users' = users]_vars

\* A deck that held cards was deleted and cards outside it remain.
C3_Witness ==
  \E c \in Clients :
    /\ Returned(c) /\ req[c].op = "deck_delete_by_id" /\ ret[c].kind = "True"
    /\ loaded[c].cards # {}
    /\ \E k \in Live(cards) : cards[k].deck_id # req[c].id

Kept(given, old) == IF given = NONE THEN old ELSE given

\* C4: card_update of an existing card sets each supplied field and keeps
\* each omitted one, keeps user_id and deck_id and every other row; of a
\* missing card it returns None and changes nothing.
C4_CardUpdatePartial ==
  [][\A c \in Clients :
       /\ (pc[c] = "card_update" /\ Ran(c) /\ ~Exists(cards, req[c].id))
          => ret'[c].kind = "None" /\ pc'[c] = "done" /\ db' = db
       /\ (pc[c] = "card_update_flush" /\ Ran(c))
          => /\ Exists(cards, req[c].id)
             /\ cards'[req[c].id] =
                  Card(cards[req[c].id].user_id,
                       Kept(req'[c].word, cards[req[c].id].word),
                       Kept(req'[c].translation, cards[req[c].id].translation),
                       Kept(req'[c].tip, cards[req[c].id].tip),
                       cards[req[c].id].deck_id)
             /\ \A k \in CardIds \ {req[c].id} : cards'[k] = cards[k]
             /\ users' = users /\ decks' = decks]_vars

\* Only the word was supplied: it changed and the translation and the tip
\* of the seeded card are the old ones.
C4_Witness ==
  \E c \in Clients :
    /\ pc[c] = "card_update_refresh" /\ req[c].id = 1
    /\ req[c].word = "new" /\ req[c].translation = NONE /\ req[c].tip = NONE
    /\ cards[1] = Card(1, "new", "pryvit", "greeting", 1)

\* C5: a delete-by-id of a missing id returns False and changes nothing;
\* of an existing id it goes on to delete the row and returns True, after
\* which the id names no row.
C5_DeleteReportsExistence ==
  [][\A c \in Clients :
       /\ (pc[c] = "user_delete" /\ Ran(c))
          => IF Exists(users, req[c].id) THEN pc'[c] = "user_delete_cascade"
             ELSE ret'[c].kind = "False" /\ pc'[c] = "done" /\ db' = db
       /\ (pc[c] = "deck_delete" /\ Ran(c))
          => IF Exists(decks, req[c].id) THEN pc'[c] = "deck_delete_cascade"
             ELSE ret'[c].kind = "False" /\ pc'[c] = "done" /\ db' = db
       /\ (pc[c] = "card_delete" /\ Ran(c))
          => IF Exists(cards, req[c].id) THEN pc'[c] = "card_delete_flush"
             ELSE ret'[c].kind = "False" /\ pc'[c] = "done" /\ db' = db
       /\ (pc[c] = "user_delete_flush" /\ Ran(c))
          => ret'[c].kind = "True" /\ Exists(users, req[c].id) /\ ~Exists(users', req[c].id)
       /\ (pc[c] = "deck_delete_flush" /\ Ran(c))
          => ret'[c].kind = "True" /\ Exists(decks, req[c].id) /\ ~Exists(decks', req[c].id)
       /\ (pc[c] = "card_delete_flush" /\ Ran(c))
          => ret'[c].kind = "True" /\ Exists(cards, req[c].id) /\ ~Exists(cards', req[c].id)
    ]_vars

\* A second delete of the seeded card 1 returned False.
C5_Witness ==
  \E c \in Clients :
    /\ Returned(c) /\ req[c].op = "card_delete_by_id" /\ req[c].id = 1
    /\ ret[c].kind = "False" /\ ~Exists(cards, 1)

DeckRoutes == {"show_cards_in_deck", "add_card", "delete_deck", "review"}
CardRoutes == {"edit_card", "update_card", "delete_card"}
CheckLabels == {"show_cards", "add_card", "delete_deck", "review",
                "edit_card", "update_card", "delete_card"}

\* The request of c names a deck or card that does not exist / that another
\* user owns.
NamesMissing(c) ==
  IF req[c].op \in DeckRoutes THEN ~Exists(decks, req[c].id) ELSE ~Exists(cards, req[c].id)

NamesForeign(c) ==
  IF req[c].op \in DeckRoutes
    THEN Exists(decks, req[c].id) /\ decks[req[c].id].user_id # cur[c]
    ELSE Exists(cards, req[c].id) /\ cards[req[c].id].user_id # cur[c]

\* The answer to a request that names no accessible row, from the request
\* alone: the not-found redirect (a 400 if /add_card lacks a required field).
NotFoundOutcome(r) ==
  IF r.op = "add_card" /\ (r.word = NONE \/ r.translation = NONE) THEN "bad_request"
  ELSE IF r.op \in DeckRoutes THEN "deck_not_found"
  ELSE "card_not_found"

\* C6: on every deck or card route, a request that names another user's
\* row is answered exactly as one that names no row, by an answer that
\* depends on the request alone, and the tables and the session are unchanged.
C6_ForeignAsMissing ==
  [][\A c \in Clients :
       (pc[c] \in CheckLabels /\ Ran(c) /\ (NamesMissing(c) \/ NamesForeign(c)))
       => /\ pc'[c] = "done"
          /\ ret'[c] = Resp(NotFoundOutcome(req'[c]))
          /\ db' = db /\ cookie' = cookie]_vars

\* Bob asked to delete Alice's deck and got the not-found answer.
C6_Witness ==
  \E c \in Clients :
    /\ Returned(c) /\ req[c].op = "delete_deck" /\ ret[c].kind = "deck_not_found"
    /\ Exists(decks, req[c].id) /\ cur[c] = 2 /\ decks[req[c].id].user_id = 1

ProtectedOps == {"index", "logout"} \cup DeckRoutes \cup CardRoutes \cup {"add_deck"}

\* C7: a request to a protected route by a session that load_user does not
\* authenticate is answered "unauthorized" at once, tables and session
\* unchanged; a route body only runs with a current user; logout leaves the
\* session without a user id, and only a successful login or registration
\* gives it one.
C7_LoginRequired ==
  [][\A c \in Clients :
       /\ (pc[c] = "idle" /\ Ran(c) /\ req'[c].op \in ProtectedOps /\ load_user(c) = NoId)
          => /\ pc'[c] = "done" /\ ret'[c].kind = "unauthorized"
             /\ db' = db /\ cookie' = cookie
       /\ (pc'[c] \notin {"idle", "done"} /\ req'[c].op \in ProtectedOps)
          => Exists(users, cur'[c]) \/ pc[c] # "idle"
       /\ (Ran(c) /\ pc'[c] = "done" /\ ret'[c].kind = "logged_out")
          => cookie'[c] = NoId
       /\ (cookie'[c] # cookie[c] /\ cookie'[c] # NoId)
          => pc'[c] = "done" /\ ret'[c].kind \in {"logged_in", "registered"}]_vars

\* A logged-out session asked to add a deck and was denied.
C7_Witness ==
  \E c \in Clients :
    /\ Returned(c) /\ req[c].op = "add_deck" /\ ret[c].kind = "unauthorized"
    /\ cookie[c] = NoId /\ nreq > 1

\* The users whose email and password the login form gives.
Matching(e, p) ==
  {u \in Live(users) : users[u].email = e /\ users[u].password.digest = <<users[u].password.salt, p>>}

Verifies(row, p) == row.password.digest = <<row.password.salt, p>>

\* C9: user_change_password goes on to the UPDATE only if the user exists
\* and the old password verifies, else returns False with the users
\* unchanged; the UPDATE returns True and afterwards exactly the new
\* password verifies; and no other step changes a user's password.
C9_PasswordChange ==
  [][/\ \A c \in Clients :
          /\ (pc[c] = "user_change_password" /\ Ran(c))
             => /\ users' = users
                /\ IF Exists(users, req[c].id) /\ Verifies(users[req[c].id], req[c].old)
                     THEN pc'[c] = "user_change_password_flush"
                     ELSE pc'[c] = "done" /\ ret'[c].kind = "False"
          /\ (pc[c] = "user_change_password_flush" /\ Ran(c))
             => /\ ret'[c].kind = "True"
                /\ Exists(users, req[c].id) /\ Verifies(users[req[c].id], req[c].old)
                /\ \A p \in Passwords : Verifies(users'[req[c].id], p) <=> p = req'[c].new
                /\ users'[req[c].id].email = users[req[c].id].email
                /\ \A u \in UserIds \ {req[c].id} : users'[u] = users[u]
     /\ \A u \in UserIds :
          (Exists(users, u) /\ Exists(users', u) /\ users'[u] # users[u])
          => \E c \in Clients : pc[c] = "user_change_password_flush" /\ Ran(c) /\ req[c].id = u
    ]_vars

\* Alice's password was changed from p1 to p2: p2 verifies and p1 does not.
C9_Witness ==
  \E c \in Clients :
    /\ Returned(c) /\ req[c].op = "user_change_password" /\ ret[c].kind = "True"
    /\ req[c].id = 1 /\ req[c].old = "p1" /\ req[c].new = "p2"
    /\ Verifies(users[1], "p2") /\ ~Verifies(users[1], "p1")

\* C10: the list /review renders holds each card of the deck exactly once,
\* as its id/word/translation/tip record, and nothing else, whatever the
\* shuffle; no step of the request changes the tables or the session.
C10_ReviewIsPermutation ==
  [][\A c \in Clients :
       /\ (pc[c] = "review_load" /\ Ran(c))
          => /\ ret'[c].kind = "review_page"
             /\ Len(ret'[c].data) = Cardinality(DeckCards(req[c].id))
             /\ \A k \in DeckCards(req[c].id) :
                  Cardinality({i \in DOMAIN ret'[c].data :
                     ret'[c].data[i] = [id |-> k, word |-> cards[k].word,
                                        translation |-> cards[k].translation,
                                        tip |-> cards[k].tip]}) = 1
             /\ \A i \in DOMAIN ret'[c].data : ret'[c].data[i].id \in DeckCards(req[c].id)
       /\ (Ran(c) /\ req'[c].op = "review") => db' = db /\ cookie' = cookie]_vars

\* A review came back in another order than the ids', while a card of
\* another deck exists.
C10_Witness ==
  \E c \in Clients :
    /\ Returned(c) /\ req[c].op = "review" /\ ret[c].kind = "review_page"
    /\ Len(ret[c].data) >= 2 /\ ret[c].data[1].id > ret[c].data[2].id
    /\ \E k \in Live(cards) : cards[k].deck_id # req[c].id

\* C11 (as stated): every card filed in a deck has the user_id of that deck.
C11_CardOwnerIsDeckOwner ==
  \A k \in Live(cards) :
    (cards[k].deck_id # NoId /\ Exists(decks, cards[k].deck_id))
    => cards[k].user_id = decks[cards[k].deck_id].user_id

\* C12 (as stated): a step of a route request of user A changes or deletes
\* only decks and cards that are A's when the step is taken.
C12_WritesOnlyOwnRows ==
  [][\A c \in DOMAIN pc :
       (Ran(c) /\ req[c].via = "route" /\ cur[c] # NoId)
       => /\ \A d \in Live(decks) : decks'[d] # decks[d] => decks[d].user_id = cur[c]
          /\ \A k \in Live(cards) : cards'[k] # cards[k] => cards[k].user_id = cur[c]]_vars

\* C13 (as stated): every stored card has a word and a translation and
\* every stored deck a name, none of them empty.
C13_RequiredFieldsNonEmpty ==
  /\ \A k \in Live(cards) :
       cards[k].word \notin {"", NONE} /\ cards[k].translation \notin {"", NONE}
  /\ \A d \in Live(decks) : decks[d].name \notin {"", NONE}

TypeOK ==
  /\ nreq \in 0..MaxReqs
  /\ \A c \in Clients : cookie[c] \in UserIds \cup {NoId} /\ cur[c] \in UserIds \cup {NoId}

====
